---- MODULE Spec2Model ----
(***************************************************************************)
(* Model of wages_dashboard.py: load_data (the CSV report reshaped into a  *)
(* long table of wage observations) and main (load, sidebar filters,       *)
(* charts or the "no data" warning).                                       *)
(*                                                                         *)
(* Text is modelled as a sequence of tokens.  A label is a sequence of     *)
(* words, blanks and dashes ("Carpentry - Female" is                       *)
(* <<"Carpentry", " ", "-", " ", "Female">>); a wage cell and a year       *)
(* header are sequences of characters.  A string the program searches for *)
(* ('Province', 'Sector', 'Male', 'Female', '- Male', '- Female') occurs   *)
(* in a text of the model only as whole tokens, so Python's substring      *)
(* search, str.replace and str.strip act on the tokens exactly as they act *)
(* on the characters.                                                      *)
(***************************************************************************)
EXTENDS Integers, Sequences, FiniteSets, TLC

VARIABLES
    file,              \* the CSV report on disk (the input)
    pc,                \* position of the program
    df_melted,         \* load_data: the melted long table, one record per (year, row)
    i,                 \* load_data: index of the melted record the loop is at
    current_province,  \* load_data: running state
    current_sector,
    current_job,
    df,                \* main: the table load_data returned
    exc,               \* the exception in flight or last raised ("" when none)
    error_msg,         \* main: the st.error message shown
    selection,         \* main: the sidebar selections
    filtered_df,       \* main: the filtered table
    screen             \* main: what has been rendered, in order

vars == <<file, pc, df_melted, i, current_province, current_sector, current_job,
          df, exc, error_msg, selection, filtered_df, screen>>

-----------------------------------------------------------------------------
(* Bounds of the input enumeration.                                        *)

MaxRows == 3

MaxLabelRows == 2

MaxCellLen == 2

-----------------------------------------------------------------------------
(* Python string operations, on token sequences.                           *)

\* `pat in s`
RECURSIVE Contains(_, _)
Contains(s, pat) ==
    IF Len(s) < Len(pat) THEN FALSE
    ELSE IF SubSeq(s, 1, Len(pat)) = pat THEN TRUE
    ELSE Contains(Tail(s), pat)

\* s.replace(pat, ''): every non-overlapping occurrence, left to right
RECURSIVE Remove(_, _)
Remove(s, pat) ==
    IF Len(s) < Len(pat) \/ pat = <<>> THEN s
    ELSE IF SubSeq(s, 1, Len(pat)) = pat
         THEN Remove(SubSeq(s, Len(pat) + 1, Len(s)), pat)
         ELSE <<Head(s)>> \o Remove(Tail(s), pat)

RECURSIVE LStrip(_)
LStrip(s) == IF s # <<>> /\ Head(s) = " " THEN LStrip(Tail(s)) ELSE s

RECURSIVE RStrip(_)
RStrip(s) ==
    IF s # <<>> /\ s[Len(s)] = " " THEN RStrip(SubSeq(s, 1, Len(s) - 1)) ELSE s

\* s.strip()
Strip(s) == RStrip(LStrip(s))

-----------------------------------------------------------------------------
(* pandas values.                                                          *)

\* a missing value of an object column, as read_csv stores an empty field
NaNText == <<"<NaN>">>

\* str(x) / astype(str) of a label or of a cell: NaN prints as 'nan'
StrLabel(x) == IF x = NaNText THEN <<"nan">> ELSE x

StrCell(x) == IF x = NaNText THEN <<"n", "a", "n">> ELSE x

\* read_csv: an empty field and the text 'nan' are read as NaN (of pandas'
\* default NA strings these two are the ones the model's texts can spell)
ReadLabel(text) == IF text \in {<<>>, <<"nan">>} THEN NaNText ELSE text

ReadCell(text) == IF text \in {<<>>, <<"n", "a", "n">>} THEN NaNText ELSE text

\* a float of the Daily_Wage column: NaN or a number
NaN == [na |-> TRUE, v |-> 0]

Num(n) == [na |-> FALSE, v |-> n]

Digits == {"0", "1", "2", "3", "4", "5", "6", "7", "8", "9"}

DigitVal(c) ==
    CASE c = "0" -> 0 [] c = "1" -> 1 [] c = "2" -> 2 [] c = "3" -> 3
      [] c = "4" -> 4 [] c = "5" -> 5 [] c = "6" -> 6 [] c = "7" -> 7
      [] c = "8" -> 8 [] c = "9" -> 9

IsDigits(s) == s # <<>> /\ \A k \in 1..Len(s) : s[k] \in Digits

RECURSIVE DecimalValue(_)
DecimalValue(s) ==
    IF s = <<>> THEN 0
    ELSE 10 * DecimalValue(SubSeq(s, 1, Len(s) - 1)) + DigitVal(s[Len(s)])

\* to_numeric with what does not parse turned into 0 instead of NaN
MutToNumeric(s) == IF IsDigits(s) THEN Num(DecimalValue(s)) ELSE Num(0)

\* pd.to_numeric(s, errors='coerce') of one string
ToNumeric(s) == IF IsDigits(s) THEN Num(DecimalValue(s)) ELSE NaN

\* line 26: .astype(str).str.replace('-', '') then to_numeric
CleanCell(x) == ToNumeric(Remove(StrCell(x), <<"-">>))

-----------------------------------------------------------------------------
(* load_data: reading and melting (lines 19-43).                           *)

IdColumn == "Province and Sector"

NumRows(f) == Len(f.rows)

NumYears(f) == Len(f.years)

\* DataFrame.melt stacks the value columns one after the other: record k is
\* row ((k-1) % rows) + 1 of year column ((k-1) \div rows) + 1
RowOf(f, k) == ((k - 1) % NumRows(f)) + 1

YearOf(f, k) == ((k - 1) \div NumRows(f)) + 1

MeltedRecord(f, k) ==
    [idx           |-> k,
     label         |-> ReadLabel(f.rows[RowOf(f, k)].label),
     Year          |-> f.years[YearOf(f, k)],
     Daily_Wage    |-> CleanCell(ReadCell(f.rows[RowOf(f, k)].cells[YearOf(f, k)])),
     Province      |-> <<>>,
     Sector        |-> <<>>,
     Job_Category  |-> <<>>,
     Gender        |-> "Male"]

Melt(f) == [k \in 1..(NumRows(f) * NumYears(f)) |-> MeltedRecord(f, k)]

\* what read_csv or melt raises for this file, "" when nothing
LoadFailure(f) ==
    CASE f.status = "missing"   -> "FileNotFoundError"
      [] f.status = "malformed" -> "ParserError"
      [] f.status = "ok" /\ f.idcol # IdColumn -> "KeyError"
      [] OTHER -> ""

\* str(e): the library's text for the exception
ExcText(e) == <<"text of ", e>>

ReadCsvFails ==
    /\ pc = "load"
    /\ LoadFailure(file) # ""
    /\ exc' = LoadFailure(file)
    /\ pc' = "except"
    /\ UNCHANGED <<file, df_melted, i, current_province, current_sector,
                   current_job, df, error_msg, selection, filtered_df, screen>>

ReadAndMelt ==
    /\ pc = "load"
    /\ LoadFailure(file) = ""
    /\ df_melted' = Melt(file)
    /\ current_province' = <<>>
    /\ current_sector' = <<>>
    /\ current_job' = <<>>
    /\ i' = 1
    /\ pc' = "loop"
    /\ UNCHANGED <<file, df, exc, error_msg, selection, filtered_df, screen>>

-----------------------------------------------------------------------------
(* load_data: the classification loop (lines 45-86).                       *)

Sentinel == <<"All", " ", "Island", " ", "(d )">>

AllIsland == <<"All", " ", "Island">>

JobMarkers == {<<"Tea">>, <<"Rubber">>, <<"Coconut">>, <<"Paddy">>,
               <<"Carpentry">>, <<"Masonry">>}

\* line 46
SectorInfo(rec) == Strip(StrLabel(rec.label))

\* line 49
IsBlank(s) == s = <<"nan">> \/ s = <<>>

\* line 53
IsProvinceHeader(s) == Contains(s, <<"Province">>) \/ s = Sentinel

\* line 60
IsSectorHeader(s) == Contains(s, <<"Sector">>)

\* line 65
IsJobMarker(s) == s \in JobMarkers

\* the if/continue chain of lines 49-67, sector test moved before the province test
MutRowKind(s) ==
    IF IsBlank(s) THEN "blank"
    ELSE IF IsSectorHeader(s) THEN "sector"
    ELSE IF IsProvinceHeader(s) THEN "province"
    ELSE IF IsJobMarker(s) THEN "job"
    ELSE "leaf"

\* the if/continue chain of lines 49-67: the first test that matches wins
RowKind(s) ==
    IF IsBlank(s) THEN "blank"
    ELSE IF IsProvinceHeader(s) THEN "province"
    ELSE IF IsSectorHeader(s) THEN "sector"
    ELSE IF IsJobMarker(s) THEN "job"
    ELSE "leaf"

\* lines 54-56
ProvinceOf(s) == IF s = Sentinel THEN AllIsland ELSE Strip(Remove(s, <<"Province">>))

\* line 61 without the strip()
MutSectorOf(s) == Remove(s, <<"Sector">>)

\* line 61
SectorOf(s) == Strip(Remove(s, <<"Sector">>))

\* lines 70-83, the Gender cell (the column's default is 'Male', line 39)
LeafGender(s) ==
    IF s \in {<<"Male">>, <<"Femal">>}
    THEN (IF s = <<"Femal">> THEN "Female" ELSE "Male")
    ELSE IF Contains(s, <<"Male">>) THEN "Male"
    ELSE IF Contains(s, <<"Female">>) THEN "Female"
    ELSE "Male"

\* lines 70-83 with the gender-only row taking the label itself as job
MutLeafJob(s, job) ==
    IF Contains(s, <<"Male">>) THEN Strip(Remove(s, <<"-", " ", "Male">>))
    ELSE IF Contains(s, <<"Female">>) THEN Strip(Remove(s, <<"-", " ", "Female">>))
    ELSE s

\* lines 70-83, the Job_Category cell
LeafJob(s, job) ==
    IF s \in {<<"Male">>, <<"Femal">>} THEN job
    ELSE IF Contains(s, <<"Male">>) THEN Strip(Remove(s, <<"-", " ", "Male">>))
    ELSE IF Contains(s, <<"Female">>) THEN Strip(Remove(s, <<"-", " ", "Female">>))
    ELSE s

InLoop == pc = "loop" /\ i <= Len(df_melted)

Cur == SectorInfo(df_melted[i])

MainUnchanged == UNCHANGED <<df, exc, error_msg, selection, filtered_df, screen>>

\* lines 49-50
SkipBlank ==
    /\ InLoop
    /\ RowKind(Cur) = "blank"
    /\ i' = i + 1
    /\ UNCHANGED <<file, pc, df_melted, current_province, current_sector, current_job>>
    /\ MainUnchanged

\* a province header that also forgets the sector and job of the previous province
MutProvinceHeader ==
    /\ InLoop
    /\ RowKind(Cur) = "province"
    /\ current_province' = ProvinceOf(Cur)
    /\ current_sector' = <<>>
    /\ current_job' = <<>>
    /\ i' = i + 1
    /\ UNCHANGED <<file, pc, df_melted>>
    /\ MainUnchanged

\* lines 53-57
ProvinceHeader ==
    /\ InLoop
    /\ RowKind(Cur) = "province"
    /\ current_province' = ProvinceOf(Cur)
    /\ i' = i + 1
    /\ UNCHANGED <<file, pc, df_melted, current_sector, current_job>>
    /\ MainUnchanged

\* lines 60-62
SectorHeader ==
    /\ InLoop
    /\ RowKind(Cur) = "sector"
    /\ current_sector' = SectorOf(Cur)
    /\ i' = i + 1
    /\ UNCHANGED <<file, pc, df_melted, current_province, current_job>>
    /\ MainUnchanged

\* a job marker that falls through to lines 85-86 instead of continuing
MutJobMarker ==
    /\ InLoop
    /\ RowKind(Cur) = "job"
    /\ current_job' = Cur
    /\ df_melted' = [df_melted EXCEPT ![i].Province = current_province,
                                      ![i].Sector = current_sector]
    /\ i' = i + 1
    /\ UNCHANGED <<file, pc, current_province, current_sector>>
    /\ MainUnchanged

\* lines 65-67
JobMarker ==
    /\ InLoop
    /\ RowKind(Cur) = "job"
    /\ current_job' = Cur
    /\ i' = i + 1
    /\ UNCHANGED <<file, pc, df_melted, current_province, current_sector>>
    /\ MainUnchanged

\* lines 70-86
LeafRow ==
    /\ InLoop
    /\ RowKind(Cur) = "leaf"
    /\ df_melted' = [df_melted EXCEPT ![i].Gender = LeafGender(Cur),
                                      ![i].Job_Category = LeafJob(Cur, current_job),
                                      ![i].Province = current_province,
                                      ![i].Sector = current_sector]
    /\ i' = i + 1
    /\ UNCHANGED <<file, pc, current_province, current_sector, current_job>>
    /\ MainUnchanged

-----------------------------------------------------------------------------
(* load_data: the final filter and the year conversion (lines 88-97).      *)

\* lines 89-93 without the Province test
MutKeep(rec) ==
    /\ ~rec.Daily_Wage.na
    /\ rec.Daily_Wage.v > 0

\* lines 89-93; a comparison with NaN is False
Keep(rec) ==
    /\ rec.Province # <<>>
    /\ ~rec.Daily_Wage.na
    /\ rec.Daily_Wage.v > 0

\* int(s) accepts the digit strings of the model's year headers
IsIntText(s) == IsDigits(s)

\* line 95, one record
WithIntYear(rec) == [rec EXCEPT !.Year = DecimalValue(rec.Year)]

DfFinal == SelectSeq(df_melted, Keep)

YearsConvert == \A k \in 1..Len(DfFinal) : IsIntText(DfFinal[k].Year)

LoopDone == pc = "loop" /\ i > Len(df_melted)

LoadUnchanged ==
    UNCHANGED <<file, df_melted, i, current_province, current_sector, current_job>>

\* lines 88-95 when astype(int) raises
FilterRaises ==
    /\ LoopDone
    /\ ~YearsConvert
    /\ exc' = "ValueError"
    /\ pc' = "except"
    /\ LoadUnchanged
    /\ UNCHANGED <<df, error_msg, selection, filtered_df, screen>>

\* lines 88-97, and the assignment of line 106
FilterAndReturn ==
    /\ LoopDone
    /\ YearsConvert
    /\ df' = [k \in 1..Len(DfFinal) |-> WithIntYear(DfFinal[k])]
    /\ pc' = "returned"
    /\ LoadUnchanged
    /\ UNCHANGED <<exc, error_msg, selection, filtered_df, screen>>

-----------------------------------------------------------------------------
(* main (lines 100-279).                                                   *)

All == <<"All">>

NotFoundMsg == [template |-> "Could not find the CSV file", detail |-> <<>>]

LoadErrorMsg(e) == [template |-> "Error loading data", detail |-> ExcText(e)]

NoMsg == [template |-> "", detail |-> <<>>]

\* lines 107-109
CatchFileNotFound ==
    /\ pc = "except"
    /\ exc = "FileNotFoundError"
    /\ error_msg' = NotFoundMsg
    /\ screen' = Append(screen, "error")
    /\ pc' = "done"
    /\ LoadUnchanged
    /\ UNCHANGED <<df, exc, selection, filtered_df>>

\* no generic handler: the exception leaves main
MutCatchException ==
    /\ pc = "except"
    /\ exc # "FileNotFoundError"
    /\ pc' = "crashed"
    /\ LoadUnchanged
    /\ UNCHANGED <<df, exc, error_msg, selection, filtered_df, screen>>

\* lines 110-112
CatchException ==
    /\ pc = "except"
    /\ exc # "FileNotFoundError"
    /\ error_msg' = LoadErrorMsg(exc)
    /\ screen' = Append(screen, "error")
    /\ pc' = "done"
    /\ LoadUnchanged
    /\ UNCHANGED <<df, exc, selection, filtered_df>>

Column(t, c) == {t[k][c] : k \in 1..Len(t)}

SetMin(S) == CHOOSE m \in S : \A x \in S : m <= x

SetMax(S) == CHOOSE m \in S : \A x \in S : x <= m

\* lines 118-131: what the widgets offer
Selections(t) ==
    [province : {All} \cup Column(t, "Province"),
     sector   : {All} \cup Column(t, "Sector"),
     gender   : {"All", "Male", "Female"},
     lo       : SetMin(Column(t, "Year"))..SetMax(Column(t, "Year")),
     hi       : SetMin(Column(t, "Year"))..SetMax(Column(t, "Year"))]

\* lines 134-146
Passes(rec, sel) ==
    /\ rec.Year >= sel.lo
    /\ rec.Year <= sel.hi
    /\ sel.province # All => rec.Province = sel.province
    /\ sel.sector # All => rec.Sector = sel.sector
    /\ sel.gender # "All" => rec.Gender = sel.gender

Filtered(t, sel) == SelectSeq(t, LAMBDA rec : Passes(rec, sel))

\* line 126 on an empty table: int() of the NaN that min() returns raises,
\* outside the try of lines 105-112
SidebarRaises ==
    /\ pc = "returned"
    /\ df = <<>>
    /\ exc' = "ValueError"
    /\ screen' = Append(screen, "filters")
    /\ pc' = "crashed"
    /\ LoadUnchanged
    /\ UNCHANGED <<df, error_msg, selection, filtered_df>>

\* lines 114-167; the slider is taken to accept min_year = max_year
SidebarAndMetrics ==
    /\ pc = "returned"
    /\ df # <<>>
    /\ \E sel \in Selections(df) :
          /\ sel.lo <= sel.hi
          /\ selection' = sel
          /\ filtered_df' = Filtered(df, sel)
    /\ screen' = screen \o <<"filters", "metrics">>
    /\ pc' = "content"
    /\ LoadUnchanged
    /\ UNCHANGED <<df, exc, error_msg>>

\* lines 170-271 and 276-279
RenderCharts ==
    /\ pc = "content"
    /\ Len(filtered_df) > 0
    /\ screen' = screen \o <<"charts", "preview">>
    /\ pc' = "done"
    /\ LoadUnchanged
    /\ UNCHANGED <<df, exc, error_msg, selection, filtered_df>>

\* lines 273-279
WarnNoData ==
    /\ pc = "content"
    /\ ~(Len(filtered_df) > 0)
    /\ screen' = screen \o <<"warning", "preview">>
    /\ pc' = "done"
    /\ LoadUnchanged
    /\ UNCHANGED <<df, exc, error_msg, selection, filtered_df>>

-----------------------------------------------------------------------------
(* The reports the model is run on.                                        *)

Dash == <<"-">>

Y2020 == <<"2", "0", "2", "0">>

Y2021 == <<"2", "0", "2", "1">>

YNotes == <<"N", "o", "t", "e", "s">>

WesternProvince == <<"Western", " ", "Province">>

CentralProvince == <<"Central", " ", "Province">>

PlantationSector == <<"Plantation", " ", "Sector">>

ConstructionSector == <<"Construction", " ", "Sector">>

Tea == <<"Tea">>

Male == <<"Male">>

Femal == <<"Femal">>

Helper == <<"Helper">>

CarpentryFemale == <<"Carpentry", " ", "-", " ", "Female">>

MasonMale == <<"Mason", " ", "-", " ", "Male">>

FemaleMason == <<"Female", " ", "Mason">>

MaleMason == <<"Male", " ", "Mason">>

ProvinceSector == <<"Estate", " ", "Sector", " ", "Province">>

SectorMale == <<"Sector", " ", "-", " ", "Male">>

ProvinceFemale == <<"Province", " ", "-", " ", "Female">>

PaddedTea == <<" ", "Tea", " ">>

Blank == <<" ">>

Empty == <<>>

OkFile(years, rows) ==
    [status |-> "ok", idcol |-> IdColumn, years |-> years, rows |-> rows]

SeqsUpTo(S, n) == UNION {[1..m -> S] : m \in 1..n}

\* reports of up to MaxRows rows and two year columns: headers and markers
\* without wages, leaf rows with wages
HierRows ==
    [label : {WesternProvince, CentralProvince, PlantationSector, ConstructionSector,
              Tea, Empty},
     cells : {<<Dash, Dash>>}]
    \cup
    [label : {Male, Helper},
     cells : {<<<<"5">>, <<"7">>>>, <<Dash, <<"5">>>>}]

HierReports == {OkFile(<<Y2020, Y2021>>, rows) : rows \in SeqsUpTo(HierRows, MaxRows)}

\* reports of up to MaxLabelRows rows of every kind of label, each with a wage
AllLabels ==
    {WesternProvince, CentralProvince, Sentinel, PlantationSector, Tea, PaddedTea,
     Male, Femal, Helper, CarpentryFemale, MasonMale, FemaleMason, MaleMason,
     ProvinceSector, SectorMale, ProvinceFemale, Blank, Empty}

LabelRows == [label : AllLabels, cells : {<<<<"5">>>>}]

LabelReports == {OkFile(<<Y2020>>, rows) : rows \in SeqsUpTo(LabelRows, MaxLabelRows)}

\* reports of one leaf row under a province, its cell any text of up to
\* MaxCellLen characters; the year header may be no integer
CellChars == {"5", "0", "-", "x"}

CellTexts == {<<>>, <<"n", "a", "n">>} \cup SeqsUpTo(CellChars, MaxCellLen)

CellReports ==
    {OkFile(<<y>>, <<[label |-> WesternProvince, cells |-> <<Dash>>],
                    [label |-> Helper, cells |-> <<c>>]>>) :
        y \in {Y2020, YNotes}, c \in CellTexts}

\* files that cannot be loaded
NoRows == <<[label |-> WesternProvince, cells |-> <<Dash>>]>>

BadFiles ==
    {[status |-> "missing", idcol |-> IdColumn, years |-> <<Y2020>>, rows |-> NoRows],
     [status |-> "malformed", idcol |-> IdColumn, years |-> <<Y2020>>, rows |-> NoRows],
     [status |-> "ok", idcol |-> "Sector", years |-> <<Y2020>>, rows |-> NoRows]}

Reports == HierReports \cup LabelReports \cup CellReports \cup BadFiles

NoSelection == [province |-> All, sector |-> All, gender |-> "All", lo |-> 0, hi |-> 0]

-----------------------------------------------------------------------------

Init ==
    /\ file \in Reports
    /\ pc = "load"
    /\ df_melted = <<>>
    /\ i = 0
    /\ current_province = <<>>
    /\ current_sector = <<>>
    /\ current_job = <<>>
    /\ df = <<>>
    /\ exc = ""
    /\ error_msg = NoMsg
    /\ selection = NoSelection
    /\ filtered_df = <<>>
    /\ screen = <<>>

Next ==
    \/ ReadCsvFails
    \/ ReadAndMelt
    \/ SkipBlank
    \/ ProvinceHeader
    \/ SectorHeader
    \/ JobMarker
    \/ LeafRow
    \/ FilterRaises
    \/ FilterAndReturn
    \/ CatchFileNotFound
    \/ CatchException
    \/ SidebarRaises
    \/ SidebarAndMetrics
    \/ RenderCharts
    \/ WarnNoData

Spec == Init /\ [][Next]_vars

-----------------------------------------------------------------------------
(* Vocabulary of the properties.                                           *)

\* the stripped label of row r of the report, as the loop sees it
LabelAt(r) == Strip(StrLabel(ReadLabel(file.rows[r].label)))

\* the text of the cell a melted record was made from
CellTextAt(k) == file.rows[RowOf(file, k)].cells[YearOf(file, k)]

\* the five kinds of row, by the precedence blank, province, sector, job, leaf
KindOfLabel(s) ==
    IF s = <<>> \/ s = <<"nan">> THEN "blank"
    ELSE IF Contains(s, <<"Province">>) \/ s = Sentinel THEN "province"
    ELSE IF Contains(s, <<"Sector">>) THEN "sector"
    ELSE IF s \in JobMarkers THEN "job"
    ELSE "leaf"

\* the nearest row above r of the given kind, 0 when there is none
NearestAbove(r, kind) ==
    LET above == {j \in 1..(r - 1) : KindOfLabel(LabelAt(j)) = kind}
    IN  IF above = {} THEN 0 ELSE CHOOSE j \in above : \A x \in above : x <= j

ProvinceAbove(r) ==
    LET j == NearestAbove(r, "province")
    IN  IF j = 0 THEN <<>>
        ELSE IF LabelAt(j) = Sentinel THEN AllIsland
        ELSE Strip(Remove(LabelAt(j), <<"Province">>))

SectorAbove(r) ==
    LET j == NearestAbove(r, "sector")
    IN  IF j = 0 THEN <<>> ELSE Strip(Remove(LabelAt(j), <<"Sector">>))

JobAbove(r) ==
    LET j == NearestAbove(r, "job") IN IF j = 0 THEN <<>> ELSE LabelAt(j)

\* the loop is at melted record i and takes its step
LoopStep == pc = "loop" /\ i <= Len(df_melted) /\ i' = i + 1

Indices(t) == {t[k].idx : k \in 1..Len(t)}

-----------------------------------------------------------------------------
\* C1: every observation of a leaf row r carries the province, sector and (for
\* a gender-only row) job set by the nearest province header, sector header
\* and job marker above r in the report, empty when there is none above; the
\* same for every year column, and nothing below r contributes.
C1_HeadersAboveDecide ==
    \A k \in 1..Len(df) :
        LET r == RowOf(file, df[k].idx)
        IN  /\ df[k].Province = ProvinceAbove(r)
            /\ df[k].Sector = SectorAbove(r)
            /\ LabelAt(r) \in {Male, Femal} => df[k].Job_Category = JobAbove(r)

-----------------------------------------------------------------------------
\* C2: every observation load_data returns has a non-empty province, a wage
\* that is present and greater than 0, and an integer year that is one of the
\* report's year columns; a melted record failing one of these is not returned.
C2_ObservationsValid ==
    /\ \A k \in 1..Len(df) :
          /\ df[k].Province # <<>>
          /\ ~df[k].Daily_Wage.na
          /\ df[k].Daily_Wage.v > 0
          /\ df[k].Year \in Int
          /\ \E y \in 1..Len(file.years) :
                IsDigits(file.years[y]) /\ df[k].Year = DecimalValue(file.years[y])
    /\ pc = "returned" =>
          \A k \in 1..Len(df_melted) :
              (df_melted[k].Province = <<>> \/ df_melted[k].Daily_Wage.na
                 \/ df_melted[k].Daily_Wage.v <= 0) => k \notin Indices(df)

\* load_data has returned observations and has dropped a record of a leaf row
\* with no province and a record with a missing or zero wage
C2_Witness ==
    /\ pc = "returned"
    /\ df # <<>>
    /\ \E k \in 1..Len(df_melted) :
          /\ df_melted[k].Province = <<>>
          /\ KindOfLabel(SectorInfo(df_melted[k])) = "leaf"
          /\ ~df_melted[k].Daily_Wage.na /\ df_melted[k].Daily_Wage.v > 0
    /\ \E k \in 1..Len(df_melted) :
          /\ df_melted[k].Province # <<>>
          /\ df_melted[k].Daily_Wage.na

-----------------------------------------------------------------------------
\* the gender marker a combined label carries: the word with the dash that
\* joins it to the job when there is one, the word alone otherwise
MarkerIn(s, word) ==
    IF Contains(s, <<"-", " ", word>>) THEN <<"-", " ", word>> ELSE <<word>>

\* C3 as stated: a gender-only leaf row takes gender from the label and job
\* from current_job; a label containing a male or female marker takes the
\* gender of the marker and, as job, the label with that marker removed and
\* trimmed; any other leaf row is Male with the label as job.
C3_MarkerRemovedFromJob ==
    [][(LoopStep /\ KindOfLabel(Cur) = "leaf") =>
        LET s == Cur
            o == df_melted'[i]
        IN  IF s = Male THEN o.Gender = "Male" /\ o.Job_Category = current_job
            ELSE IF s = Femal THEN o.Gender = "Female" /\ o.Job_Category = current_job
            ELSE IF Contains(s, <<"Male">>)
                 THEN /\ o.Gender = "Male"
                      /\ o.Job_Category = Strip(Remove(s, MarkerIn(s, "Male")))
            ELSE IF Contains(s, <<"Female">>)
                 THEN /\ o.Gender = "Female"
                      /\ o.Job_Category = Strip(Remove(s, MarkerIn(s, "Female")))
            ELSE o.Gender = "Male" /\ o.Job_Category = s]_vars

\* C3 as amended: as above, except that what is removed from a combined label
\* is '- Male' (when the label contains 'Male', tested first) or '- Female'
\* (when it contains 'Female'); a marker that no '- ' precedes stays in the job.
C3_DashMarkerRemovedFromJob ==
    [][(LoopStep /\ KindOfLabel(Cur) = "leaf") =>
        LET s == Cur
            o == df_melted'[i]
        IN  IF s = Male THEN o.Gender = "Male" /\ o.Job_Category = current_job
            ELSE IF s = Femal THEN o.Gender = "Female" /\ o.Job_Category = current_job
            ELSE IF Contains(s, <<"Male">>)
                 THEN /\ o.Gender = "Male"
                      /\ o.Job_Category = Strip(Remove(s, <<"-", " ", "Male">>))
            ELSE IF Contains(s, <<"Female">>)
                 THEN /\ o.Gender = "Female"
                      /\ o.Job_Category = Strip(Remove(s, <<"-", " ", "Female">>))
            ELSE o.Gender = "Male" /\ o.Job_Category = s]_vars

\* the loop has classified 'Carpentry - Female' as job Carpentry, Female, and
\* 'Female Mason' as Female with the marker kept in the job
C3_Witness ==
    /\ pc = "loop"
    /\ \E k \in 1..(i - 1) :
          /\ SectorInfo(df_melted[k]) = CarpentryFemale
          /\ df_melted[k].Job_Category = <<"Carpentry">>
          /\ df_melted[k].Gender = "Female"
    /\ \E k \in 1..(i - 1) :
          /\ SectorInfo(df_melted[k]) = FemaleMason
          /\ df_melted[k].Job_Category = FemaleMason
          /\ df_melted[k].Gender = "Female"

-----------------------------------------------------------------------------
\* the string form of the cell of melted record k (the value read, printed by
\* astype(str)) once every dash is taken out
Undashed(k) == SelectSeq(StrCell(ReadCell(CellTextAt(k))), LAMBDA ch : ch # "-")

\* the text is a number as written: digits, with or without a leading minus
WrittenNumber(c) ==
    \/ IsDigits(c)
    \/ (c # <<>> /\ Head(c) = "-" /\ IsDigits(Tail(c)))

\* no error comes from the cells: a load fails only for the file, the label
\* column or a year header
NoCellError ==
    pc = "except" =>
        \/ LoadFailure(file) # ""
        \/ \E y \in 1..Len(file.years) : ~IsDigits(file.years[y])

\* C4 as stated: a cell whose text is empty, the bare dash, or no number is
\* missing: no error, no observation, no numeric wage.
C4_UnparsedCellIsMissing ==
    /\ NoCellError
    /\ \A k \in 1..Len(df_melted) :
          ~WrittenNumber(CellTextAt(k)) =>
              /\ df_melted[k].Daily_Wage.na
              /\ k \notin Indices(df)

\* C4 as amended: the dashes are taken out of the cell's string form first; a
\* cell whose remaining string is empty or no number is missing (no error, no
\* observation, never 0 or another number), and a cell whose remaining string
\* is a number has that number as wage.
C4_UndashedCellDecides ==
    /\ NoCellError
    /\ \A k \in 1..Len(df_melted) :
          IF IsDigits(Undashed(k))
          THEN df_melted[k].Daily_Wage = Num(DecimalValue(Undashed(k)))
          ELSE /\ df_melted[k].Daily_Wage.na
               /\ k \notin Indices(df)

\* load_data has returned, having met under a province a leaf row whose cell
\* holds a dash and is no number even without it
C4_Witness ==
    /\ pc = "returned"
    /\ \E k \in 1..Len(df_melted) :
          /\ df_melted[k].Province # <<>>
          /\ CellTextAt(k) # <<>>
          /\ "x" \in {CellTextAt(k)[n] : n \in 1..Len(CellTextAt(k))}
          /\ "-" \in {CellTextAt(k)[n] : n \in 1..Len(CellTextAt(k))}
          /\ df_melted[k].Daily_Wage.na

-----------------------------------------------------------------------------
\* the latest sector header the loop met before melted record k, 0 when none
SectorHeaderBefore(k) ==
    LET before == {j \in 1..(k - 1) : KindOfLabel(SectorInfo(df_melted[j])) = "sector"}
    IN  IF before = {} THEN 0 ELSE CHOOSE j \in before : \A x \in before : x <= j

\* C5 as stated: every observation has a non-empty sector.
C5_SectorNonEmpty == \A k \in 1..Len(df) : df[k].Sector # <<>>

\* C5 as amended: an observation's sector is the name set by the latest sector
\* header the loop met before its melted record, and it is empty when the loop
\* met none before it.
C5_SectorIsLatestHeader ==
    \A k \in 1..Len(df) :
        LET j == SectorHeaderBefore(df[k].idx)
        IN  IF j = 0 THEN df[k].Sector = <<>>
            ELSE df[k].Sector = Strip(Remove(SectorInfo(df_melted[j]), <<"Sector">>))

\* load_data has returned an observation of a leaf row that follows a province
\* header with no sector header before it, and one that follows a sector header
C5_Witness ==
    /\ pc = "returned"
    /\ \E k \in 1..Len(df) : df[k].Sector = <<>> /\ SectorHeaderBefore(df[k].idx) = 0
    /\ \E k \in 1..Len(df) : df[k].Sector # <<>>

-----------------------------------------------------------------------------
HeaderKinds == {"province", "sector", "job"}

\* C6: a province header, sector header or job-marker row never yields an
\* observation, whatever its cells hold and whatever province is set: its
\* step writes nothing in the table and only updates the running state (for a
\* province header: the label without 'Province', trimmed, or 'All Island'
\* for the sentinel), and no record of such a row is in the returned table.
C6_HeadersEmitNothing ==
    [][/\ (LoopStep /\ KindOfLabel(Cur) \in HeaderKinds) =>
            /\ df_melted' = df_melted
            /\ df_melted[i].Province = <<>>
            /\ KindOfLabel(Cur) = "province" =>
                   current_province' =
                       IF Cur = Sentinel THEN AllIsland
                       ELSE Strip(Remove(Cur, <<"Province">>))
            /\ KindOfLabel(Cur) = "sector" =>
                   current_sector' = Strip(Remove(Cur, <<"Sector">>))
            /\ KindOfLabel(Cur) = "job" => current_job' = Cur
       /\ pc' = "returned" =>
            \A k \in 1..Len(df') :
                KindOfLabel(SectorInfo(df_melted[df'[k].idx])) \notin HeaderKinds]_vars

\* load_data has returned after a province header was followed by a header or
\* marker row holding a positive wage
C6_Witness ==
    /\ pc = "returned"
    /\ \E k \in 1..Len(df_melted) :
          /\ KindOfLabel(SectorInfo(df_melted[k])) \in HeaderKinds
          /\ ~df_melted[k].Daily_Wage.na
          /\ df_melted[k].Daily_Wage.v > 0
          /\ \E j \in 1..(k - 1) :
                /\ KindOfLabel(SectorInfo(df_melted[j])) = "province"
                /\ Strip(Remove(SectorInfo(df_melted[j]), <<"Province">>)) # <<>>

-----------------------------------------------------------------------------
\* the outcome of main once the load has failed with exception e
FailureKind(e) ==
    IF e = "FileNotFoundError" THEN "not found"
    ELSE IF e = "ParserError" THEN "malformed"
    ELSE "other"

\* the kind of failure a message tells its reader
MessageKind(m) ==
    IF m.template = "Could not find the CSV file" THEN "not found"
    ELSE IF m.template = "Error loading data" THEN "other"
    ELSE "malformed"

\* a failure of the load is caught: main shows one error and returns, with no
\* filters, metrics or charts
FailureCaught ==
    pc = "except" =>
        /\ pc' = "done"
        /\ screen' = <<"error">>
        /\ error_msg' # NoMsg
        /\ UNCHANGED <<df, selection, filtered_df>>

\* C7 as stated: a failure of the load is caught, and the message shown tells
\* which of three kinds it was: not found, malformed, or other.
C7_ThreeKindsOfMessage ==
    [][/\ FailureCaught
       /\ pc = "except" => MessageKind(error_msg') = FailureKind(exc)]_vars

\* C7 as amended: a failure of the load is caught, and the message shown tells
\* which of two kinds it was: not found (a fixed message), or any other failure,
\* a malformed source included ('Error loading data' and the exception's text).
C7_TwoKindsOfMessage ==
    [][/\ FailureCaught
       /\ pc = "except" =>
            IF exc = "FileNotFoundError"
            THEN error_msg' = NotFoundMsg
            ELSE error_msg' = [template |-> "Error loading data",
                               detail |-> ExcText(exc)]]_vars

\* main has returned after a malformed source, the generic error shown
C7_Witness ==
    /\ pc = "done"
    /\ exc = "ParserError"
    /\ error_msg.template = "Error loading data"
    /\ screen = <<"error">>

-----------------------------------------------------------------------------
\* C8: main never raises on an empty table: when no observation passes the
\* filters, and also when load_data returned no observation at all, main ends
\* in the 'no data' warning, without charts.
C8_EmptyTableWarns ==
    /\ pc # "crashed"
    /\ (pc = "done" /\ error_msg = NoMsg /\ filtered_df = <<>>) =>
           screen = <<"filters", "metrics", "warning", "preview">>

-----------------------------------------------------------------------------
\* C9: a label matching several rules is handled by the earliest of blank,
\* province header, sector header, job marker, leaf: one with 'Province' and
\* 'Sector' updates current_province only, and one with 'Sector' or 'Province'
\* and a gender marker is a header, writes nothing in the table and is no leaf.
C9_EarliestRuleWins ==
    [][LoopStep =>
        LET s == Cur
            gendered == Contains(s, <<"Male">>) \/ Contains(s, <<"Female">>)
        IN  /\ (Contains(s, <<"Province">>) /\ Contains(s, <<"Sector">>)) =>
                  /\ current_province' = Strip(Remove(s, <<"Province">>))
                  /\ current_sector' = current_sector
            /\ (Contains(s, <<"Province">>) /\ gendered) =>
                  /\ current_province' = Strip(Remove(s, <<"Province">>))
                  /\ df_melted' = df_melted
            /\ (Contains(s, <<"Sector">>) /\ ~Contains(s, <<"Province">>) /\ gendered) =>
                  /\ current_sector' = Strip(Remove(s, <<"Sector">>))
                  /\ df_melted' = df_melted
            /\ KindOfLabel(s) = "blank" =>
                  UNCHANGED <<df_melted, current_province, current_sector, current_job>>
            /\ KindOfLabel(s) = "job" =>
                  current_job' = s /\ df_melted' = df_melted
            /\ KindOfLabel(s) = "leaf" =>
                  df_melted'[i].Province = current_province]_vars

\* the loop has passed a label with 'Province' and 'Sector', which set the
\* province and left the sector empty, and then a label with 'Sector' and 'Male'
C9_Witness ==
    /\ pc = "loop"
    /\ i = 3
    /\ SectorInfo(df_melted[1]) = ProvinceSector
    /\ SectorInfo(df_melted[2]) = SectorMale
    /\ current_province = <<"Estate", " ", "Sector">>
    /\ current_sector = <<"-", " ", "Male">>
    /\ df_melted[2].Province = <<>>

-----------------------------------------------------------------------------
\* C10: a step of the loop changes at most the running-state variable its row
\* owns: none for a blank or a leaf row, current_province for a province
\* header, current_sector for a sector header, current_job for a job marker.
C10_OnlyOwnStateChanges ==
    [][LoopStep =>
        LET kind == KindOfLabel(Cur)
        IN  /\ kind \in {"blank", "leaf"} =>
                  UNCHANGED <<current_province, current_sector, current_job>>
            /\ kind = "province" => UNCHANGED <<current_sector, current_job>>
            /\ kind = "sector" => UNCHANGED <<current_province, current_job>>
            /\ kind = "job" => UNCHANGED <<current_province, current_sector>>]_vars

\* the loop has passed a province header with a sector and a job already set,
\* and both are still set
C10_Witness ==
    /\ pc = "loop"
    /\ i > 1
    /\ KindOfLabel(SectorInfo(df_melted[i - 1])) = "province"
    /\ \E j \in 1..(i - 2) : KindOfLabel(SectorInfo(df_melted[j])) = "sector"
    /\ \E j \in 1..(i - 2) : KindOfLabel(SectorInfo(df_melted[j])) = "job"
    /\ current_sector # <<>>
    /\ current_job # <<>>

====
